---- MODULE Spec2Model ----
(***************************************************************************)
(* The speech output scheduler of BlindNav (speechService): a priority     *)
(* queue of utterances, the driver that hands them one at a time to the    *)
(* platform speech engine (expo-speech), and the announcement throttle;    *)
(* the request limiter of geminiService; announceScene, the camera         *)
(* screen's choice of what to say about a scene; and GeminiLiveSession,    *)
(* the streaming session with the model.                                   *)
(*                                                                         *)
(* Time is in milliseconds, as Date.now() gives it.  The platform engine   *)
(* is modelled by the set of utterances handed to Speech.speak whose       *)
(* terminal callback has not been delivered yet; Speech.stop() halts them. *)
(* Callbacks and the 300 ms settle timers are delivered asynchronously, on *)
(* the same cooperative scheduler as the public calls: every action below  *)
(* is one run-to-completion handler.                                       *)
(***************************************************************************)
EXTENDS Naturals, Integers, Sequences, FiniteSets

\* ---------------------------------------------------------------- bounds
\* Number of submissions (calls of a speak function) in one behaviour.
MaxUtterances == 3
\* Date.now() when the service is loaded: far larger than any timeout or gap
\* (lastAnnouncementTime starts at 0, the epoch).
StartTime == 100000
\* The instants, in ms after StartTime, at which handlers run.  Their differences
\* cover the settle delay (300), the throttle gap (2000) and the timeout of a
\* high utterance (5000), each exactly, below and above.
ClockInstants == {0, 2000, 5000, 5300}

\* Later instants, in ms after StartTime.  With ClockInstants their differences
\* cover the timeout of a normal utterance (10000 = 12000 - 2000, and 12000)
\* and of a low utterance (15000, and 15300), each exactly and above.
LongInstants == {12000, 15000, 15300}

\* Number of configuration calls (setLanguage, setSpeechRate) in one behaviour.
MaxConfigCalls == 1

\* Number of generateContent requests issued in one behaviour.
MaxRequests == 14
\* The instants, in ms after StartTime, at which geminiService runs: within one
\* rate-limit window, at its end and just past it.
GeminiInstants == {0, 30000, 60000, 60001}

\* Number of calls of the live session that reach their await in one behaviour.
MaxLiveCalls == 3

\* Longest list of warnings and of objects in a scene.
MaxSceneItems == 2

\* The texts a caller gives speak(text, priority): the empty string and a sentence.
Sentence == "x"
Texts == {"", Sentence}

\* ------------------------------------------------------------- constants
\* SPEECH_CONFIG.MIN_ANNOUNCEMENT_GAP
MIN_ANNOUNCEMENT_GAP == 2000
\* The delay of setTimeout(() => processQueue(), 300) in onDone and onError.
SETTLE_DELAY == 300

Priorities == {"critical", "high", "normal", "low"}

\* type Language
Languages == {"en", "hi"}
\* SPEECH_CONFIG.LANGUAGES[language]
LANGUAGES(language) ==
    CASE language = "en" -> "en-IN"
      [] language = "hi" -> "hi-IN"

\* The names of the speech rates.
Rates == {"slow", "normal", "fast"}
\* SPEECH_CONFIG.RATE[rate], in tenths: 0.8, 1.0, 1.3
RATE(rate) ==
    CASE rate = "slow" -> 8
      [] rate = "normal" -> 10
      [] rate = "fast" -> 13

\* AI_CONFIG.GEMINI_RPM
GEMINI_RPM == 15
\* RATE_LIMIT_WINDOW
RATE_LIMIT_WINDOW == 60000
\* MAX_REQUESTS_PER_MINUTE = AI_CONFIG.GEMINI_RPM - 2
MAX_REQUESTS_PER_MINUTE == GEMINI_RPM - 2

\* SPEECH_CONFIG.PRIORITY_TIMEOUT[priority]
PRIORITY_TIMEOUT(priority) ==
    CASE priority = "critical" -> 0
      [] priority = "high" -> 5000
      [] priority = "normal" -> 10000
      [] priority = "low" -> 15000

\* getPriorityValue(priority)
getPriorityValue(priority) ==
    CASE priority = "critical" -> 4
      [] priority = "high" -> 3
      [] priority = "normal" -> 2
      [] priority = "low" -> 1
      [] OTHER -> 0

VARIABLES
    isSpeaking,            \* state.isSpeaking
    isPaused,              \* state.isPaused
    queue,                 \* state.queue: sequence of SpeechQueueItem
    lastAnnouncementTime,  \* module variable lastAnnouncementTime
    now,                   \* Date.now()
    engine,                \* utterances handed to Speech.speak, callback pending
    timers,                \* due times of the pending setTimeout(processQueue, 300)
    nextId,                \* the id generateId gives the next submission
    pendingCritical,       \* history: critical utterances submitted, not started
                           \* yet and not cleared by stop()
    lastNormalAt,          \* history: time of the last accepted normal submission
    currentLanguage,       \* state.currentLanguage
    speechRate,            \* state.speechRate, in tenths
    configCalls,           \* number of setLanguage and setSpeechRate calls made
    last,                  \* history: what the last handler did
    requestCount,          \* geminiService: requestCount
    lastRequestTime,       \* geminiService: lastRequestTime
    awaiting,              \* calls suspended at await model.generateContent(...)
    issuedAt,              \* history: generateContent requests issued, per instant
    verbosity,             \* useAppStore: verbosity
    announced,             \* history: the last announceScene: the verbosity it
                           \* read, its scene and the speechService calls it made
    isStreaming,           \* GeminiLiveSession: this.isStreaming
    session,               \* GeminiLiveSession: this.session ("null" or "chat")
    suspended,             \* the calls of start, streamFrame, streamAudio and
                           \* sendText suspended at their await; stale (history):
                           \* stop() was called while the call was suspended
    liveCalls,             \* number of calls suspended so far
    stoppedSince           \* history: stop() has returned and start() has not
                           \* been called since

\* The state of speechService, the clock apart.
speechVars == <<isSpeaking, isPaused, queue, lastAnnouncementTime, engine,
                timers, nextId, pendingCritical, lastNormalAt, currentLanguage,
                speechRate, configCalls>>
\* The state of geminiService.
geminiVars == <<requestCount, lastRequestTime, awaiting, issuedAt>>
\* The state of the camera screen.
cameraVars == <<verbosity, announced>>
\* The state of the GeminiLiveSession.
liveVars == <<isStreaming, session, suspended, liveCalls, stoppedSince>>
\* The state speechService does not touch.
beyondSpeech == <<geminiVars, cameraVars, liveVars>>

vars == <<speechVars, now, last, beyondSpeech>>

\* The value of `item` when processQueue hands nothing to the engine.
NoItem == [id |-> 0, text |-> "", priority |-> "none", timestamp |-> 0]

Ids(q) == {q[i].id : i \in DOMAIN q}
Items(q) == {q[i] : i \in DOMAIN q}

\* Compare with the operands of the timestamp difference swapped.
CompareNewestFirst(a, b) ==
    LET priorityDiff == getPriorityValue(b.priority) - getPriorityValue(a.priority)
    IN  IF priorityDiff # 0 THEN priorityDiff ELSE b.timestamp - a.timestamp

\* The comparator of state.queue.sort in addToQueue: negative when a goes first.
Compare(a, b) ==
    LET priorityDiff == getPriorityValue(b.priority) - getPriorityValue(a.priority)
    IN  IF priorityDiff # 0 THEN priorityDiff ELSE a.timestamp - b.timestamp

\* Array.prototype.sort is stable: x goes behind every element that does not
\* compare greater than it.
RECURSIVE InsertSorted(_, _)
InsertSorted(s, x) ==
    IF s = <<>> THEN <<x>>
    ELSE IF Compare(Head(s), x) > 0 THEN <<x>> \o s
         ELSE <<Head(s)>> \o InsertSorted(Tail(s), x)

RECURSIVE SortQueue(_)
SortQueue(q) ==
    IF q = <<>> THEN <<>>
    ELSE InsertSorted(SortQueue(SubSeq(q, 1, Len(q) - 1)), q[Len(q)])

\* The test of the filter that ends addToQueue: the item is kept.
NotExpiredAtEnqueue(item, t) == t - item.timestamp < PRIORITY_TIMEOUT(item.priority)

\* The test of processQueue: the popped item is skipped.
ExpiredAtPop(item, t) ==
    t - item.timestamp > PRIORITY_TIMEOUT(item.priority) /\ item.priority # "critical"

\* addToQueue with unshift for push: the new item enters at the front.
addToQueueAtFront(q, id, text, priority, t) ==
    LET item == [id |-> id, text |-> text, priority |-> priority, timestamp |-> t]
        sorted == SortQueue(<<item>> \o q)
    IN  SelectSeq(sorted, LAMBDA it : NotExpiredAtEnqueue(it, t))

\* addToQueue without state.queue.sort: push, drop the expired items.
addToQueueUnsorted(q, id, text, priority, t) ==
    LET item == [id |-> id, text |-> text, priority |-> priority, timestamp |-> t]
    IN  SelectSeq(Append(q, item), LAMBDA it : NotExpiredAtEnqueue(it, t))

\* addToQueue(text, priority) at time t: push, sort, drop the expired items.
addToQueue(q, id, text, priority, t) ==
    LET item == [id |-> id, text |-> text, priority |-> priority, timestamp |-> t]
        sorted == SortQueue(Append(q, item))
    IN  SelectSeq(sorted, LAMBDA it : NotExpiredAtEnqueue(it, t))

\* interruptWithCritical without the filter: the new item is only unshifted.
interruptKeepingQueue(q, id, text, t) ==
    <<[id |-> id, text |-> text, priority |-> "critical", timestamp |-> t]>> \o q

\* interruptWithCritical with push for unshift: the new item enters at the back.
interruptAtBack(q, id, text, t) ==
    SelectSeq(q, LAMBDA it : it.priority = "critical")
        \o <<[id |-> id, text |-> text, priority |-> "critical", timestamp |-> t]>>

\* The queue step of speakImmediate: keep the critical items, unshift the new one.
interruptWithCritical(q, id, text, t) ==
    <<[id |-> id, text |-> text, priority |-> "critical", timestamp |-> t]>>
        \o SelectSeq(q, LAMBDA it : it.priority = "critical")

\* processQueue past its guard, without the retry: an expired head is
\* discarded and nothing else is tried.
PopHeadOnly(q, t) ==
    IF q = <<>> THEN [queue |-> <<>>, item |-> NoItem]
    ELSE IF ExpiredAtPop(Head(q), t) THEN [queue |-> Tail(q), item |-> NoItem]
         ELSE [queue |-> Tail(q), item |-> Head(q)]

\* processQueue past its guard, reading state.queue[0] where it shifts an
\* eligible item: the item handed to speakItem stays in the queue.
RECURSIVE PopWithoutShift(_, _)
PopWithoutShift(q, t) ==
    IF q = <<>> THEN [queue |-> <<>>, item |-> NoItem]
    ELSE IF ExpiredAtPop(Head(q), t) THEN PopWithoutShift(Tail(q), t)
         ELSE [queue |-> q, item |-> Head(q)]

\* processQueue past its guard: shift items until one is not expired.
RECURSIVE PopEligible(_, _)
PopEligible(q, t) ==
    IF q = <<>> THEN [queue |-> <<>>, item |-> NoItem]
    ELSE IF ExpiredAtPop(Head(q), t) THEN PopEligible(Tail(q), t)
         ELSE [queue |-> Tail(q), item |-> Head(q)]

\* processQueue without the isSpeaking test of its guard.
processQueueIgnoringSpeaking(paused, speaking, q, t) ==
    IF paused \/ q = <<>> THEN [queue |-> q, item |-> NoItem]
    ELSE PopEligible(q, t)

\* processQueue without the isPaused test of its guard.
processQueueIgnoringPause(paused, speaking, q, t) ==
    IF speaking \/ q = <<>> THEN [queue |-> q, item |-> NoItem]
    ELSE PopEligible(q, t)

\* processQueue(): the queue it leaves and the item it hands to speakItem.
processQueue(paused, speaking, q, t) ==
    IF paused \/ speaking \/ q = <<>> THEN [queue |-> q, item |-> NoItem]
    ELSE PopEligible(q, t)

\* Speech.stop(): every utterance the engine holds is halted.
SpeechStop(eng) == {[e EXCEPT !.halted = TRUE] : e \in eng}

\* Speech.speak with the language of the default configuration.
SpeechSpeakDefaultLanguage(eng, item) ==
    IF item.id = 0 THEN eng
    ELSE eng \cup {[id |-> item.id, halted |-> FALSE,
                    language |-> LANGUAGES("en"), rate |-> speechRate]}

\* Speech.speak(item.text, {language, rate, ...}) in speakItem: the options
\* are read from the configuration at the call.
SpeechSpeak(eng, item) ==
    IF item.id = 0 THEN eng
    ELSE eng \cup {[id |-> item.id, halted |-> FALSE,
                    language |-> LANGUAGES(currentLanguage), rate |-> speechRate]}

\* The last handler: its name, the utterance it is about, whether it called
\* Speech.stop(), whether a submission reached the queue, the utterance it
\* handed to the engine (0: none), that utterance's priority and its age at
\* the hand-over, and the items it removed from the queue without speaking them.
\* For a submission, text is the text submitted and via the priority argument
\* of the speak(text, priority) that made the call ("direct": the function was
\* called directly).
Did(op, id, stop, accepted, item, dropped) ==
    [op |-> op, id |-> id, stop |-> stop, accepted |-> accepted,
     start |-> item.id, priority |-> item.priority,
     age |-> IF item.id = 0 THEN 0 ELSE now - item.timestamp,
     dropped |-> dropped, text |-> "", via |-> "direct"]

\* Did, for a submission.
Submitted(rec, text, via) == [rec EXCEPT !.text = text, !.via = via]

\* The tail of every handler that ends in processQueue(): paused, speaking, q,
\* eng and pend are the state the handler has built before the call.
Drive(call, id, stop, accepted, paused, speaking, q, eng, pend) ==
    LET r == processQueue(paused, speaking, q, now)
    IN  /\ queue' = r.queue
        /\ isSpeaking' = IF r.item.id # 0 THEN TRUE ELSE speaking
        /\ isPaused' = paused
        /\ engine' = SpeechSpeak(eng, r.item)
        /\ pendingCritical' = pend \ {r.item.id}
        /\ last' = Submitted(
                       Did(call.op, id, stop, accepted, r.item,
                           (Items(queue) \cup Items(q)) \ (Items(r.queue) \cup {r.item})),
                       call.text, call.via)

\* ------------------------------------------------- scenes (SceneDescription)

\* Detection, as far as announceScene reads it: label, distance ("none": the
\* field is absent) and position ("": the field is absent).
Detection(label, distance, position) ==
    [label |-> label, distance |-> distance, position |-> position]

\* The detections of the scenes: very close, close, not close, distance unknown.
Detections ==
    {Detection("car", "very_close", ""), Detection("door", "close", "left"),
     Detection("tree", "far", ""), Detection("sign", "none", "left")}

\* The sequences over S of length at most n.
SeqUpTo(S, n) == UNION {[1..k -> S] : k \in 0..n}

\* SceneDescription, as far as announceScene reads it.
Scenes ==
    [summary : {"", "a street"},
     objects : SeqUpTo(Detections, MaxSceneItems),
     text : {<<>>, <<"EXIT">>},
     warnings : SeqUpTo({"stairs"}, MaxSceneItems)]

\* The value of announced.scene before the first announceScene.
NoScene == [summary |-> "", objects |-> <<>>, text |-> <<>>, warnings |-> <<>>]

\* The values of Date.now() at which geminiService runs.
GeminiTimes == {StartTime + d : d \in GeminiInstants}

Init ==
    /\ isSpeaking = FALSE
    /\ isPaused = FALSE
    /\ queue = <<>>
    /\ lastAnnouncementTime = 0
    /\ now = StartTime
    /\ engine = {}
    /\ timers = <<>>
    /\ nextId = 1
    /\ pendingCritical = {}
    /\ lastNormalAt = -1
    /\ currentLanguage = "en"
    /\ speechRate = RATE("normal")
    /\ configCalls = 0
    /\ requestCount = 0
    /\ lastRequestTime = 0
    /\ awaiting = 0
    /\ issuedAt = [t \in GeminiTimes |-> 0]
    /\ verbosity = "balanced"
    /\ announced = [verbosity |-> "none", scene |-> NoScene, calls |-> <<>>]
    /\ isStreaming = FALSE
    /\ session = "null"
    /\ suspended = {}
    /\ liveCalls = 0
    /\ stoppedSince = FALSE
    /\ last = Did("init", 0, FALSE, FALSE, NoItem, {})

\* generateId(): ids are unique, here the rank of the submission.
CanSubmit == nextId <= MaxUtterances

\* A handler that is no submission.
Handler(op) == [op |-> op, text |-> "", via |-> "direct"]
\* The call of a speak function with this text, directly or through speak.
Call(op, text, via) == [op |-> op, text |-> text, via |-> via]

\* addToQueue followed by processQueue, as speakHigh, speakNormal, speakLow run them.
Enqueue(call, priority) ==
    /\ nextId' = nextId + 1
    /\ Drive(call, nextId, FALSE, TRUE, isPaused, isSpeaking,
             addToQueue(queue, nextId, call.text, priority, now), engine,
             pendingCritical)

\* speakImmediate calling speakItem on its utterance in place of processQueue().
speakImmediateStartingAtOnce(text, via) ==
    /\ CanSubmit
    /\ nextId' = nextId + 1
    /\ LET r == PopEligible(interruptWithCritical(queue, nextId, text, now), now)
       IN  /\ queue' = r.queue
           /\ isSpeaking' = TRUE
           /\ engine' = SpeechSpeak(SpeechStop(engine), r.item)
           /\ pendingCritical' = pendingCritical \ {r.item.id}
           /\ last' = Submitted(
                          Did("speakImmediate", nextId, TRUE, TRUE, r.item,
                              Items(queue) \ Items(r.queue)),
                          text, via)
    /\ UNCHANGED <<isPaused, lastAnnouncementTime, now, timers, lastNormalAt,
                   currentLanguage, speechRate, configCalls, beyondSpeech>>

speakImmediateOf(text, via) ==
    /\ CanSubmit
    /\ nextId' = nextId + 1
    /\ Drive(Call("speakImmediate", text, via), nextId, TRUE, TRUE, isPaused, FALSE,
             interruptWithCritical(queue, nextId, text, now), SpeechStop(engine),
             pendingCritical \cup {nextId})
    /\ UNCHANGED <<lastAnnouncementTime, now, timers, lastNormalAt,
                   currentLanguage, speechRate, configCalls, beyondSpeech>>

speakHighOf(text, via) ==
    /\ CanSubmit
    /\ Enqueue(Call("speakHigh", text, via), "high")
    /\ UNCHANGED <<lastAnnouncementTime, now, timers, lastNormalAt,
                   currentLanguage, speechRate, configCalls, beyondSpeech>>

\* The throttle test with <= for <.
ThrottledInclusive == now - lastAnnouncementTime <= MIN_ANNOUNCEMENT_GAP

\* The throttle test of speakNormal.
Throttled == now - lastAnnouncementTime < MIN_ANNOUNCEMENT_GAP

speakNormalOf(text, via) ==
    /\ CanSubmit
    /\ IF Throttled
       THEN /\ nextId' = nextId + 1
            /\ last' = Submitted(Did("speakNormal", nextId, FALSE, FALSE, NoItem, {}),
                                 text, via)
            /\ UNCHANGED <<isSpeaking, isPaused, queue, engine, pendingCritical,
                           lastNormalAt>>
       ELSE /\ Enqueue(Call("speakNormal", text, via), "normal")
            /\ lastNormalAt' = now
    /\ UNCHANGED <<lastAnnouncementTime, now, timers,
                   currentLanguage, speechRate, configCalls, beyondSpeech>>

speakLowOf(text, via) ==
    /\ CanSubmit
    /\ Enqueue(Call("speakLow", text, via), "low")
    /\ UNCHANGED <<lastAnnouncementTime, now, timers, lastNormalAt,
                   currentLanguage, speechRate, configCalls, beyondSpeech>>

\* The four functions called directly, with a sentence.
speakImmediate == speakImmediateOf(Sentence, "direct")
speakHigh == speakHighOf(Sentence, "direct")
speakNormal == speakNormalOf(Sentence, "direct")
speakLow == speakLowOf(Sentence, "direct")

\* The priority arguments of speak(text, priority); the argument may be omitted.
SpeakArgs == Priorities \cup {"omitted"}
\* speak's default parameter: priority: Priority = 'normal'.
DefaultPriority(arg) == IF arg = "omitted" THEN "normal" ELSE arg

\* speak's switch without the case 'low'.
SpeakTargetWithoutLow(priority) ==
    CASE priority = "critical" -> "speakImmediate"
      [] priority = "high" -> "speakHigh"
      [] OTHER -> "speakNormal"

\* The switch of speak: the function it calls for a priority.
SpeakTarget(priority) ==
    CASE priority = "critical" -> "speakImmediate"
      [] priority = "high" -> "speakHigh"
      [] priority = "low" -> "speakLow"
      [] OTHER -> "speakNormal"

\* speak(text, priority = 'normal'), with any text.
speak ==
    \E text \in Texts, arg \in SpeakArgs :
        LET target == SpeakTarget(DefaultPriority(arg))
        IN  \/ target = "speakImmediate" /\ speakImmediateOf(text, arg)
            \/ target = "speakHigh" /\ speakHighOf(text, arg)
            \/ target = "speakNormal" /\ speakNormalOf(text, arg)
            \/ target = "speakLow" /\ speakLowOf(text, arg)

\* pause without the call of Speech.stop().
pauseWithoutStop ==
    /\ isPaused' = TRUE
    /\ isSpeaking' = FALSE
    /\ last' = Did("pause", 0, FALSE, FALSE, NoItem, {})
    /\ UNCHANGED <<queue, engine, lastAnnouncementTime, now, timers, nextId,
                   pendingCritical, lastNormalAt,
                   currentLanguage, speechRate, configCalls, beyondSpeech>>

pause ==
    /\ isPaused' = TRUE
    /\ engine' = SpeechStop(engine)
    /\ isSpeaking' = FALSE
    /\ last' = Did("pause", 0, TRUE, FALSE, NoItem, {})
    /\ UNCHANGED <<queue, lastAnnouncementTime, now, timers, nextId,
                   pendingCritical, lastNormalAt,
                   currentLanguage, speechRate, configCalls, beyondSpeech>>

\* resume without the call of processQueue().
resumeWithoutDrive ==
    /\ isPaused' = FALSE
    /\ last' = Did("resume", 0, FALSE, FALSE, NoItem, {})
    /\ UNCHANGED <<isSpeaking, queue, engine, lastAnnouncementTime, now, timers,
                   nextId, pendingCritical, lastNormalAt,
                   currentLanguage, speechRate, configCalls, beyondSpeech>>

resume ==
    /\ Drive(Handler("resume"), 0, FALSE, FALSE, FALSE, isSpeaking, queue, engine,
             pendingCritical)
    /\ UNCHANGED <<lastAnnouncementTime, now, timers, nextId, lastNormalAt,
                   currentLanguage, speechRate, configCalls, beyondSpeech>>

\* stop without the reset of state.isPaused.
stopKeepingPaused ==
    /\ engine' = SpeechStop(engine)
    /\ queue' = <<>>
    /\ isSpeaking' = FALSE
    /\ pendingCritical' = {}
    /\ last' = Did("stop", 0, TRUE, FALSE, NoItem, Items(queue))
    /\ UNCHANGED <<isPaused, lastAnnouncementTime, now, timers, nextId, lastNormalAt,
                   currentLanguage, speechRate, configCalls, beyondSpeech>>

\* stop without state.queue = [].
stopKeepingQueue ==
    /\ engine' = SpeechStop(engine)
    /\ isSpeaking' = FALSE
    /\ isPaused' = FALSE
    /\ last' = Did("stop", 0, TRUE, FALSE, NoItem, {})
    /\ UNCHANGED <<queue, pendingCritical, lastAnnouncementTime, now, timers, nextId,
                   lastNormalAt, currentLanguage, speechRate, configCalls,
                   beyondSpeech>>

stop ==
    /\ engine' = SpeechStop(engine)
    /\ queue' = <<>>
    /\ isSpeaking' = FALSE
    /\ isPaused' = FALSE
    /\ pendingCritical' = {}
    /\ last' = Did("stop", 0, TRUE, FALSE, NoItem, Items(queue))
    /\ UNCHANGED <<lastAnnouncementTime, now, timers, nextId, lastNormalAt,
                   currentLanguage, speechRate, configCalls, beyondSpeech>>

\* The engine reports the completion of an utterance.  The completion of a
\* halted utterance may be delivered too: the event raced with Speech.stop()
\* (the engine of the unit tests completes every utterance it was given).
\* onDone without setTimeout(() => processQueue(), 300).
onDoneWithoutTimer ==
    \E e \in engine :
        /\ engine' = engine \ {e}
        /\ isSpeaking' = FALSE
        /\ lastAnnouncementTime' = now
        /\ last' = Did("onDone", e.id, FALSE, FALSE, NoItem, {})
        /\ UNCHANGED <<isPaused, queue, now, timers, nextId, pendingCritical,
                       lastNormalAt, currentLanguage, speechRate, configCalls,
                       beyondSpeech>>

onDone ==
    \E e \in engine :
        /\ engine' = engine \ {e}
        /\ isSpeaking' = FALSE
        /\ lastAnnouncementTime' = now
        /\ timers' = Append(timers, now + SETTLE_DELAY)
        /\ last' = Did("onDone", e.id, FALSE, FALSE, NoItem, {})
        /\ UNCHANGED <<isPaused, queue, now, nextId, pendingCritical, lastNormalAt,
                       currentLanguage, speechRate, configCalls, beyondSpeech>>

\* onError without setTimeout(() => processQueue(), 300).
onErrorWithoutTimer ==
    \E e \in engine :
        /\ ~e.halted
        /\ engine' = engine \ {e}
        /\ isSpeaking' = FALSE
        /\ last' = Did("onError", e.id, FALSE, FALSE, NoItem, {})
        /\ UNCHANGED <<isPaused, queue, lastAnnouncementTime, now, timers, nextId,
                       pendingCritical, lastNormalAt,
                       currentLanguage, speechRate, configCalls, beyondSpeech>>

onError ==
    \E e \in engine :
        /\ ~e.halted
        /\ engine' = engine \ {e}
        /\ isSpeaking' = FALSE
        /\ timers' = Append(timers, now + SETTLE_DELAY)
        /\ last' = Did("onError", e.id, FALSE, FALSE, NoItem, {})
        /\ UNCHANGED <<isPaused, queue, lastAnnouncementTime, now, nextId,
                       pendingCritical, lastNormalAt,
                       currentLanguage, speechRate, configCalls, beyondSpeech>>

\* onStopped advancing the queue as onError does.
onStoppedAdvancing ==
    \E e \in engine :
        /\ e.halted
        /\ engine' = engine \ {e}
        /\ isSpeaking' = FALSE
        /\ timers' = Append(timers, now + SETTLE_DELAY)
        /\ last' = Did("onStopped", e.id, FALSE, FALSE, NoItem, {})
        /\ UNCHANGED <<isPaused, queue, lastAnnouncementTime, now,
                       nextId, pendingCritical, lastNormalAt,
                       currentLanguage, speechRate, configCalls, beyondSpeech>>

onStopped ==
    \E e \in engine :
        /\ e.halted
        /\ engine' = engine \ {e}
        /\ isSpeaking' = FALSE
        /\ last' = Did("onStopped", e.id, FALSE, FALSE, NoItem, {})
        /\ UNCHANGED <<isPaused, queue, lastAnnouncementTime, now, timers,
                       nextId, pendingCritical, lastNormalAt,
                       currentLanguage, speechRate, configCalls, beyondSpeech>>

\* A settle timer fires, not before it is due: () => processQueue().
settleTimer ==
    /\ timers # <<>>
    /\ Head(timers) <= now
    /\ timers' = Tail(timers)
    /\ Drive(Handler("timer"), 0, FALSE, FALSE, isPaused, isSpeaking, queue, engine,
             pendingCritical)
    /\ UNCHANGED <<lastAnnouncementTime, now, nextId, lastNormalAt,
                   currentLanguage, speechRate, configCalls, beyondSpeech>>

\* Time passes between two handlers.  The scheduler is not starved: a settle
\* timer that is due fires, and the engine delivers the terminal callback of an
\* utterance that Speech.stop() halted, before the clock reaches the next instant.
Tick ==
    \E d \in ClockInstants :
        /\ \A i \in DOMAIN timers : timers[i] > now
        /\ \A e \in engine : ~e.halted
        /\ StartTime + d > now
        /\ now' = StartTime + d
        /\ last' = Did("tick", 0, FALSE, FALSE, NoItem, {})
        /\ UNCHANGED <<isSpeaking, isPaused, queue, lastAnnouncementTime, engine,
                       timers, nextId, pendingCritical, lastNormalAt,
                       currentLanguage, speechRate, configCalls, beyondSpeech>>

CanConfigure == configCalls < MaxConfigCalls

\* setLanguage(language)
setLanguage ==
    \E language \in Languages :
        /\ CanConfigure
        /\ configCalls' = configCalls + 1
        /\ currentLanguage' = language
        /\ last' = Did("setLanguage", 0, FALSE, FALSE, NoItem, {})
        /\ UNCHANGED <<isSpeaking, isPaused, queue, lastAnnouncementTime, now, engine,
                       timers, nextId, pendingCritical, lastNormalAt, speechRate,
                       beyondSpeech>>

\* setSpeechRate(rate)
setSpeechRate ==
    \E rate \in Rates :
        /\ CanConfigure
        /\ configCalls' = configCalls + 1
        /\ speechRate' = RATE(rate)
        /\ last' = Did("setSpeechRate", 0, FALSE, FALSE, NoItem, {})
        /\ UNCHANGED <<isSpeaking, isPaused, queue, lastAnnouncementTime, now, engine,
                       timers, nextId, pendingCritical, lastNormalAt, currentLanguage,
                       beyondSpeech>>

Next ==
    \/ speakImmediate
    \/ speakHigh
    \/ speakNormal
    \/ speakLow
    \/ pause
    \/ resume
    \/ stop
    \/ onDone
    \/ onError
    \/ onStopped
    \/ settleTimer
    \/ Tick

\* The service driven through its four speak functions, pause, resume and stop.
Spec == Init /\ [][Next]_vars

\* Time passes until the first settle timer is due (timers are set in time
\* order, so the first is the earliest).
TickToTimer ==
    /\ timers # <<>>
    /\ Head(timers) > now
    /\ \A e \in engine : ~e.halted
    /\ now' = Head(timers)
    /\ last' = Did("tick", 0, FALSE, FALSE, NoItem, {})
    /\ UNCHANGED <<isSpeaking, isPaused, queue, lastAnnouncementTime, engine,
                   timers, nextId, pendingCritical, lastNormalAt,
                   currentLanguage, speechRate, configCalls, beyondSpeech>>

\* Time passes between two handlers, up to the timeouts of normal and low
\* utterances.
LongTick ==
    \E d \in LongInstants :
        /\ \A i \in DOMAIN timers : timers[i] > now
        /\ \A e \in engine : ~e.halted
        /\ StartTime + d > now
        /\ now' = StartTime + d
        /\ last' = Did("tick", 0, FALSE, FALSE, NoItem, {})
        /\ UNCHANGED <<isSpeaking, isPaused, queue, lastAnnouncementTime, engine,
                       timers, nextId, pendingCritical, lastNormalAt,
                       currentLanguage, speechRate, configCalls, beyondSpeech>>

\* The service over a span of time that covers every priority's timeout.
LongNext == Next \/ LongTick
SpecLong == Init /\ [][LongNext]_vars

\* The service on a scheduler that runs: time reaches the due time of a settle
\* timer, a due timer fires, and the engine delivers the onStopped of an
\* utterance it was told to stop.
FairNext == Next \/ TickToTimer
FairSpec ==
    /\ Init
    /\ [][FairNext]_vars
    /\ WF_vars(TickToTimer)
    /\ WF_vars(settleTimer)
    /\ WF_vars(onStopped)

\* The engine delivers the terminal callback of an utterance it was given.
Terminal == onDone \/ onError \/ onStopped

\* A pause is ended by resume() or stop().
Unpause == isPaused /\ (resume \/ stop)

\* The service where the engine delivers a terminal callback for every
\* utterance, settle timers fire when due, and every pause() is followed by
\* resume() or stop().
LiveSpec ==
    /\ Init
    /\ [][FairNext]_vars
    /\ WF_vars(Terminal)
    /\ WF_vars(TickToTimer)
    /\ WF_vars(settleTimer)
    /\ WF_vars(Unpause)

\* ------------------------------------------------------- geminiService

\* canMakeRequest(): requestCount after the reset of a passed window.
CountAtCheck ==
    IF now - lastRequestTime > RATE_LIMIT_WINDOW THEN 0 ELSE requestCount

\* canMakeRequest() with <= for <.
canMakeRequestInclusive == CountAtCheck <= MAX_REQUESTS_PER_MINUTE

\* canMakeRequest(): the value it returns.
canMakeRequest == CountAtCheck < MAX_REQUESTS_PER_MINUTE

\* The generateContent requests issued so far.
RECURSIVE SumOver(_, _)
SumOver(f, S) ==
    IF S = {} THEN 0
    ELSE LET t == CHOOSE x \in S : TRUE IN f[t] + SumOver(f, S \ {t})
Issued == SumOver(issuedAt, GeminiTimes)

\* analyzeImage and describePhoto up to their await: the rate-limit check,
\* then the request is issued and the call is suspended.  Nothing is counted
\* before the await returns.
GeminiCall(op) ==
    /\ now \in GeminiTimes
    /\ Issued < MaxRequests
    /\ requestCount' = CountAtCheck
    /\ IF canMakeRequest
       THEN /\ awaiting' = awaiting + 1
            /\ issuedAt' = [issuedAt EXCEPT ![now] = @ + 1]
            /\ last' = Did(op, 0, FALSE, TRUE, NoItem, {})
       ELSE /\ last' = Did(op, 0, FALSE, FALSE, NoItem, {})
            /\ UNCHANGED <<awaiting, issuedAt>>
    /\ UNCHANGED <<speechVars, now, lastRequestTime, cameraVars, liveVars>>

analyzeImage == GeminiCall("analyzeImage")
describePhoto == GeminiCall("describePhoto")

\* await model.generateContent(...) returns: the request is counted now.
generateContentResolves ==
    /\ awaiting > 0
    /\ awaiting' = awaiting - 1
    /\ lastRequestTime' = now
    /\ requestCount' = requestCount + 1
    /\ last' = Did("resolve", 0, FALSE, FALSE, NoItem, {})
    /\ UNCHANGED <<speechVars, now, issuedAt, cameraVars, liveVars>>

\* await model.generateContent(...) throws: the catch counts nothing.
generateContentRejects ==
    /\ awaiting > 0
    /\ awaiting' = awaiting - 1
    /\ last' = Did("reject", 0, FALSE, FALSE, NoItem, {})
    /\ UNCHANGED <<speechVars, now, requestCount, lastRequestTime, issuedAt,
                   cameraVars, liveVars>>

\* Time passes between two steps of geminiService.
GeminiTick ==
    \E t \in GeminiTimes :
        /\ t > now
        /\ now' = t
        /\ last' = Did("tick", 0, FALSE, FALSE, NoItem, {})
        /\ UNCHANGED <<speechVars, geminiVars, cameraVars, liveVars>>

GeminiNext ==
    \/ analyzeImage
    \/ describePhoto
    \/ generateContentResolves
    \/ generateContentRejects
    \/ GeminiTick

\* geminiService called by the camera screen; its calls may overlap.
SpecGemini == Init /\ [][GeminiNext]_vars

\* ------------------------------------------------------- CameraScreen

VerbosityLevels == {"critical", "balanced", "detailed"}

\* speechService.speakX(text): a call the screen makes.  The text is kept as
\* the parts the template string joins.
SpeakCall(fn, parts) == [fn |-> fn, text |-> parts]

\* obj.position || 'ahead'
PositionOrAhead(obj) == IF obj.position = "" THEN "ahead" ELSE obj.position

\* closest.distance === 'very_close' ? 'very close' : 'close'
DistanceText(obj) == IF obj.distance = "very_close" THEN "very close" ELSE "close"

\* scene.objects.filter(obj => obj.distance === 'very_close' || obj.distance === 'close')
CloseObjects(scene) ==
    SelectSeq(scene.objects, LAMBDA obj : obj.distance \in {"very_close", "close"})

\* if (scene.summary) speechService.speakNormal(scene.summary)
SummaryCalls(scene) ==
    IF scene.summary # "" THEN <<SpeakCall("speakNormal", <<scene.summary>>)>> ELSE <<>>

\* The case 'balanced' of the switch.
BalancedCalls(scene) == SummaryCalls(scene)

\* The case 'detailed' of the switch.
DetailedCalls(scene) ==
    SummaryCalls(scene)
        \o [i \in DOMAIN scene.objects |->
               SpeakCall("speakLow",
                         <<scene.objects[i].label, PositionOrAhead(scene.objects[i])>>)]
        \o (IF Len(scene.text) > 0
            THEN <<SpeakCall("speakNormal", <<"Text visible: ">> \o scene.text)>>
            ELSE <<>>)

\* The switch with the break of case 'critical' missing: it falls through
\* to case 'balanced'.
VerbosityCallsFallingThrough(scene, level) ==
    CASE level = "critical" -> BalancedCalls(scene)
      [] level = "balanced" -> BalancedCalls(scene)
      [] level = "detailed" -> DetailedCalls(scene)

\* switch (verbosity)
VerbosityCalls(scene, level) ==
    CASE level = "critical" -> <<>>
      [] level = "balanced" -> BalancedCalls(scene)
      [] level = "detailed" -> DetailedCalls(scene)

\* announceScene(scene): the speechService calls it makes, in order.
AnnounceCalls(scene, level) ==
    IF Len(scene.warnings) > 0
    THEN [i \in DOMAIN scene.warnings |->
              SpeakCall("speakImmediate", <<scene.warnings[i]>>)]
    ELSE IF Len(CloseObjects(scene)) > 0
         THEN LET closest == CloseObjects(scene)[1]
              IN  <<SpeakCall("speakHigh",
                              <<closest.label, DistanceText(closest),
                                PositionOrAhead(closest)>>)>>
         ELSE VerbosityCalls(scene, level)

\* useAppStore: setVerbosity(level)
setVerbosity ==
    \E level \in VerbosityLevels :
        /\ verbosity' = level
        /\ UNCHANGED <<speechVars, now, last, geminiVars, liveVars, announced>>

\* analyzeCurrentFrame hands a scene to announceScene.
announceScene ==
    \E scene \in Scenes :
        /\ announced' = [verbosity |-> verbosity, scene |-> scene,
                         calls |-> AnnounceCalls(scene, verbosity)]
        /\ UNCHANGED <<speechVars, now, last, geminiVars, liveVars, verbosity>>

CameraNext == setVerbosity \/ announceScene

\* The camera screen announcing the scenes it is given.
SpecAnnounce == Init /\ [][CameraNext]_vars

\* ------------------------------------- CameraScreen driving speechService

\* The scenes handed to the speaking screen: with or without a summary, with
\* up to MaxSceneItems warnings, without objects and visible text.  Every text
\* announceScene builds for them has a single part.
ScreenScenes ==
    {scene \in Scenes : scene.objects = <<>> /\ scene.text = <<>>}

\* The state of speechService that its speak functions read and write, with
\* a record of what the calls made so far have done: whether Speech.stop()
\* was called, whether a submission reached the queue, the utterance started
\* last.
Service ==
    [isSpeaking |-> isSpeaking, isPaused |-> isPaused, queue |-> queue,
     engine |-> engine, nextId |-> nextId, pendingCritical |-> pendingCritical,
     lastNormalAt |-> lastNormalAt, stop |-> FALSE, accepted |-> FALSE,
     item |-> NoItem]

\* processQueue() run on the service state st, after a speak function has
\* made the queue q, the flag speaking, the engine eng and the waiting
\* critical utterances pend.
DriveOn(st, q, speaking, eng, pend) ==
    LET r == processQueue(st.isPaused, speaking, q, now)
    IN  [st EXCEPT !.queue = r.queue,
                   !.isSpeaking = IF r.item.id # 0 THEN TRUE ELSE speaking,
                   !.engine = SpeechSpeak(eng, r.item),
                   !.pendingCritical = pend \ {r.item.id},
                   !.nextId = @ + 1,
                   !.accepted = TRUE,
                   !.item = IF r.item.id # 0 THEN r.item ELSE @]

\* addToQueue followed by processQueue, on the service state st.
EnqueueOn(st, text, priority) ==
    DriveOn(st, addToQueue(st.queue, st.nextId, text, priority, now),
            st.isSpeaking, st.engine, st.pendingCritical)

\* One call speechService.speakX(text) of the screen, on the service state st.
CallOn(st, call) ==
    LET text == call.text[1]
    IN  CASE call.fn = "speakImmediate" ->
                 [DriveOn(st, interruptWithCritical(st.queue, st.nextId, text, now),
                          FALSE, SpeechStop(st.engine),
                          st.pendingCritical \cup {st.nextId})
                      EXCEPT !.stop = TRUE]
          [] call.fn = "speakHigh" -> EnqueueOn(st, text, "high")
          [] call.fn = "speakNormal" ->
                 IF Throttled
                 THEN [st EXCEPT !.nextId = @ + 1]
                 ELSE [EnqueueOn(st, text, "normal") EXCEPT !.lastNormalAt = now]
          [] call.fn = "speakLow" -> EnqueueOn(st, text, "low")

\* The calls of one announceScene, made in order.
RECURSIVE CallsOn(_, _)
CallsOn(st, calls) ==
    IF calls = <<>> THEN st ELSE CallsOn(CallOn(st, Head(calls)), Tail(calls))

\* announceScene(scene) with its calls carried out by speechService: one
\* handler, the forEach over the warnings included.
announceSceneAloud ==
    \E scene \in ScreenScenes :
        LET calls == AnnounceCalls(scene, verbosity)
            st == CallsOn(Service, calls)
        IN  /\ calls # <<>>
            /\ nextId + Len(calls) - 1 <= MaxUtterances
            /\ announced' = [verbosity |-> verbosity, scene |-> scene, calls |-> calls]
            /\ isSpeaking' = st.isSpeaking
            /\ queue' = st.queue
            /\ engine' = st.engine
            /\ nextId' = st.nextId
            /\ pendingCritical' = st.pendingCritical
            /\ lastNormalAt' = st.lastNormalAt
            /\ last' = Did("announceScene", nextId, st.stop, st.accepted, st.item,
                           (Items(queue) \ Items(st.queue)) \ {st.item})
            /\ UNCHANGED <<isPaused, lastAnnouncementTime, now, timers,
                           currentLanguage, speechRate, configCalls, geminiVars,
                           liveVars, verbosity>>

ScreenNext ==
    \/ announceSceneAloud
    \/ pause
    \/ resume
    \/ stop
    \/ onDone
    \/ onError
    \/ onStopped
    \/ settleTimer
    \/ Tick

\* speechService driven by the camera screen: announceScene is the only
\* caller of the speak functions.
SpecScreen == Init /\ [][ScreenNext]_vars

\* --------------------------------------------------- GeminiLiveSession

\* The texts response.text() gives: none, or a sentence.
ResponseTexts == {"", Sentence}

\* A handler of the live session: its name, the suspended call it is about
\* (0: none), whether it sent a message to the model, and the text it
\* delivered to callbacks.onText ("": onText was not called).
LiveDid(op, id, sent, text) ==
    Submitted(Did(op, id, FALSE, sent, NoItem, {}), text, "direct")

\* A call reaches its await and is suspended there.
Suspend(op) ==
    /\ liveCalls < MaxLiveCalls
    /\ liveCalls' = liveCalls + 1
    /\ suspended' = suspended \cup {[id |-> liveCalls + 1, op |-> op, stale |-> FALSE]}

\* start(systemPrompt), up to await this.model.startChat(...).
sessionStart ==
    /\ stoppedSince' = FALSE
    /\ IF isStreaming
       THEN /\ last' = LiveDid("start", 0, FALSE, "")
            /\ UNCHANGED <<suspended, liveCalls>>
       ELSE /\ Suspend("start")
            /\ last' = LiveDid("start", liveCalls + 1, FALSE, "")
    /\ UNCHANGED <<speechVars, now, geminiVars, cameraVars, isStreaming, session>>

\* await this.model.startChat(...) returns: the session is stored and the
\* flag set, whatever has happened while start was suspended.
startChatResolves ==
    \E c \in suspended :
        /\ c.op = "start"
        /\ suspended' = suspended \ {c}
        /\ session' = "chat"
        /\ isStreaming' = TRUE
        /\ last' = LiveDid("startChatResolves", c.id, FALSE, "")
        /\ UNCHANGED <<speechVars, now, geminiVars, cameraVars, liveCalls, stoppedSince>>

\* await this.model.startChat(...) throws: callbacks.onError.
startChatRejects ==
    \E c \in suspended :
        /\ c.op = "start"
        /\ suspended' = suspended \ {c}
        /\ last' = LiveDid("startChatRejects", c.id, FALSE, "")
        /\ UNCHANGED <<speechVars, now, geminiVars, cameraVars, isStreaming, session,
                       liveCalls, stoppedSince>>

\* streamFrame, streamAudio and sendText up to their await: the guard, then
\* this.session.sendMessage(...) is called and the call is suspended.
Send(op) ==
    /\ IF ~isStreaming \/ session = "null"
       THEN /\ last' = LiveDid(op, 0, FALSE, "")
            /\ UNCHANGED <<suspended, liveCalls>>
       ELSE /\ Suspend(op)
            /\ last' = LiveDid(op, liveCalls + 1, TRUE, "")
    /\ UNCHANGED <<speechVars, now, geminiVars, cameraVars, isStreaming, session,
                   stoppedSince>>

streamFrame == Send("streamFrame")
streamAudio == Send("streamAudio")
sendText == Send("sendText")

\* await this.session.sendMessage(...) returns: if (text) this.callbacks.onText(text).
sendMessageResolves ==
    \E c \in suspended, text \in ResponseTexts :
        /\ c.op # "start"
        /\ suspended' = suspended \ {c}
        /\ last' = LiveDid("sendMessageResolves", c.id, FALSE, text)
        /\ UNCHANGED <<speechVars, now, geminiVars, cameraVars, isStreaming, session,
                       liveCalls, stoppedSince>>

\* await this.session.sendMessage(...) throws: the catch logs (and streamFrame
\* calls callbacks.onError); onText is not called.
sendMessageRejects ==
    \E c \in suspended :
        /\ c.op # "start"
        /\ suspended' = suspended \ {c}
        /\ last' = LiveDid("sendMessageRejects", c.id, FALSE, "")
        /\ UNCHANGED <<speechVars, now, geminiVars, cameraVars, isStreaming, session,
                       liveCalls, stoppedSince>>

\* GeminiLiveSession.stop(): the flag and the session are reset; the
\* suspended calls are not touched (they are marked for the record).
sessionStop ==
    /\ isStreaming' = FALSE
    /\ session' = "null"
    /\ suspended' = {[c EXCEPT !.stale = TRUE] : c \in suspended}
    /\ stoppedSince' = TRUE
    /\ last' = LiveDid("sessionStop", 0, FALSE, "")
    /\ UNCHANGED <<speechVars, now, geminiVars, cameraVars, liveCalls>>

\* isActive()
isActive == isStreaming

LiveNext ==
    \/ sessionStart
    \/ startChatResolves
    \/ startChatRejects
    \/ streamFrame
    \/ streamAudio
    \/ sendText
    \/ sendMessageResolves
    \/ sendMessageRejects
    \/ sessionStop

\* A GeminiLiveSession driven by its application; its calls may overlap.
SpecLive == Init /\ [][LiveNext]_vars

\* The service with speak(text, priority) as a further entry point.
ApiNext == Next \/ speak
SpecApi == Init /\ [][ApiNext]_vars

\* The service with its configuration calls.
ConfigNext == Next \/ setLanguage \/ setSpeechRate
SpecConfig == Init /\ [][ConfigNext]_vars

\* ------------------------------------------------------------ properties

\* The utterances in flight: handed to Speech.speak, terminal callback not yet
\* delivered, not halted by Speech.stop().
InFlight == {e \in engine : ~e.halted}

\* C1: in every reachable state at most one utterance is in flight, also when
\* the terminal callback of a halted utterance arrives after the next
\* utterance has been started.
C1_AtMostOneInFlight == Cardinality(InFlight) <= 1

\* C2: a critical submission halts whatever the engine holds, and it is the
\* next utterance the driver starts: no non-critical utterance is handed to the
\* engine while a submitted critical utterance is still waiting to be started.
C2_CriticalIsNextStarted ==
    /\ last.op = "speakImmediate" =>
           \A e \in engine : e.halted \/ e.id = last.start
    /\ (last.start # 0 /\ last.priority # "critical") => pendingCritical = {}

\* C3: no critical utterance is discarded by expiry: a critical utterance that
\* was submitted and has neither been started nor cleared by stop() is still
\* in the queue, whatever enqueue's sweep and the pop-time check have done.
C3_CriticalNeverExpires == pendingCritical \subseteq Ids(queue)

\* C4: critical utterances are started first-in-first-out: when a critical
\* utterance is handed to the engine, no critical utterance submitted before
\* it is still waiting in the queue.
C4_CriticalFIFO ==
    (last.start # 0 /\ last.priority = "critical") =>
        \A i \in DOMAIN queue :
            queue[i].priority = "critical" => queue[i].id > last.start

\* C5: after an enqueue call (speakHigh, an accepted speakNormal, speakLow) the
\* pending queue is ordered: an utterance of higher priority rank stands before
\* every utterance of lower rank, and utterances of equal priority stand in
\* submission order, also when they carry the same timestamp.
C5_EnqueueOrder ==
    (last.op \in {"speakHigh", "speakNormal", "speakLow"} /\ last.accepted) =>
        \A i, j \in DOMAIN queue :
            i < j =>
                \/ getPriorityValue(queue[i].priority) > getPriorityValue(queue[j].priority)
                \/ /\ queue[i].priority = queue[j].priority
                   /\ queue[i].id < queue[j].id

\* C5 witness: an enqueue has left three pending utterances, the one submitted
\* last in front (higher priority) of two of equal priority and timestamp.
C5_Witness ==
    /\ last.op = "speakHigh"
    /\ Len(queue) = 3
    /\ queue[1].id = last.id
    /\ queue[2].priority = queue[3].priority
    /\ queue[2].timestamp = queue[3].timestamp
    /\ queue[2].id < queue[3].id

\* C6: a high utterance is never handed to the engine by a processQueue that
\* pops it 5000 ms or more after its submission, exactly 5000 ms included.
C6_HighNotSpokenAtTimeout ==
    (last.start # 0 /\ last.priority = "high") => last.age < PRIORITY_TIMEOUT("high")

\* C7: a normal submission made less than the minimum announcement gap after
\* the last accepted normal submission is dropped: the queue length is the
\* same before and after the call and the call starts no speech.
C7_SecondNormalDropped ==
    [][(/\ last'.op = "speakNormal"
        /\ nextId' = nextId + 1
        /\ lastNormalAt # -1
        /\ now - lastNormalAt < MIN_ANNOUNCEMENT_GAP)
       => (Len(queue') = Len(queue) /\ last'.start = 0 /\ ~last'.accepted)]_vars

\* The step is speakImmediate(B) run right after an accepted speakNormal(A):
\* A is last.id, B is last'.id.
NormalThenCritical ==
    /\ last.op = "speakNormal"
    /\ last.accepted
    /\ last'.op = "speakImmediate"
    /\ nextId' = nextId + 1

\* C8 as stated: for speakNormal(A) immediately followed by a critical
\* submission B, B is started before A is started and A is still pending
\* afterwards (A, submitted at the same instant, cannot have expired).
C8_NormalSurvivesCritical ==
    [][NormalThenCritical => (last.start # last.id /\ last.id \in Ids(queue'))]_vars

\* C8 amended: for speakNormal(A) immediately followed by a critical
\* submission B, in every starting state, A is not pending afterwards and is
\* never started after B: B's interruption drops A if it was queued and halts
\* it if it was in flight, and B itself is started at once unless the driver
\* is paused.  (An utterance is only ever started out of the queue or by the
\* call that submits it.)
C8_NormalDroppedByCritical ==
    [][/\ NormalThenCritical =>
             /\ last.id \notin Ids(queue')
             /\ last'.start # last.id
             /\ \A e \in engine' : e.id = last.id => e.halted
             /\ ~isPaused => last'.start = last'.id
       /\ last'.start # 0 => (last'.start \in Ids(queue) \/ last'.start = nextId)]_vars

\* C8 witness: a critical submission has dropped from the queue the normal
\* utterance submitted just before it, at the same instant.
C8_Witness ==
    /\ last.op = "speakImmediate"
    /\ \E it \in last.dropped :
           /\ it.id = last.id - 1
           /\ it.priority = "normal"
           /\ it.timestamp = now

\* C9: while paused no utterance is started and isSpeaking() is false: in every
\* paused state the flag is down, no utterance is in flight, and the handler
\* that led there (a call, a callback, a settle timer) handed nothing to the
\* engine.
C9_PausedIsSilent ==
    isPaused => (~isSpeaking /\ InFlight = {} /\ last.start = 0)

\* C9 witness: speakHigh(y) was called while paused, y is still queued and a
\* callback of the halted utterance is yet to be delivered.
C9_Witness ==
    /\ isPaused
    /\ last.op = "speakHigh"
    /\ last.id \in Ids(queue)
    /\ engine # {}

\* The state stop() leaves.
Stopped == queue = <<>> /\ ~isSpeaking /\ ~isPaused

\* C10: after stop() in any state the queue is empty, isSpeaking() is false
\* and paused is false; stop() in a state that is already so leaves the queue,
\* the flags, the throttle time and the settle timers unchanged.
C10_StopResets ==
    [][last'.op = "stop" =>
           /\ Stopped'
           /\ InFlight' = {}
           /\ Stopped => UNCHANGED <<queue, isSpeaking, isPaused,
                                     lastAnnouncementTime, timers>>]_vars

\* C10 witness: stop() was called while paused with utterances pending and one
\* halted in the engine.
C10_Witness ==
    /\ last.op = "stop"
    /\ last.dropped # {}
    /\ engine # {}
    /\ Stopped

\* The step is a submission: a call of speakImmediate, speakHigh, speakNormal
\* or speakLow, directly or through speak.
IsSubmission == nextId' = nextId + 1

\* C11: a submission whose text is empty is rejected for every priority: the
\* queue, the speaking flag and the paused flag are unchanged and the engine
\* is not invoked, neither Speech.speak nor Speech.stop.
C11_EmptyTextRejected ==
    [][(IsSubmission /\ last'.text = "") =>
           /\ UNCHANGED <<queue, isSpeaking, isPaused>>
           /\ ~last'.stop
           /\ last'.start = 0]_vars

\* The submission of the step was taken: its utterance is pending or was
\* started by the call itself.
Accepted ==
    /\ last'.accepted
    /\ last'.id \in Ids(queue') \/ last'.start = last'.id

\* C12: a normal submission made when now - lastAnnouncementTime is below the
\* minimum gap is dropped silently: the queue, the speaking flag, the paused
\* flag, lastAnnouncementTime and the engine are unchanged and nothing is
\* started.  A normal submission made when the difference is the gap or more
\* is accepted; critical, high and low submissions are always accepted.
C12_ThrottleFrame ==
    [][IsSubmission =>
           /\ (last'.op = "speakNormal" /\ now - lastAnnouncementTime < MIN_ANNOUNCEMENT_GAP)
                  => /\ UNCHANGED <<queue, isSpeaking, isPaused, lastAnnouncementTime,
                                    engine, timers>>
                     /\ ~last'.accepted
                     /\ last'.start = 0
           /\ (last'.op = "speakNormal" /\ now - lastAnnouncementTime >= MIN_ANNOUNCEMENT_GAP)
                  => Accepted
           /\ last'.op \in {"speakImmediate", "speakHigh", "speakLow"} => Accepted]_vars

\* C12 witness: a normal submission was dropped by the throttle while an
\* utterance was pending.
C12_Witness ==
    /\ last.op = "speakNormal"
    /\ ~last.accepted
    /\ now - lastAnnouncementTime < MIN_ANNOUNCEMENT_GAP
    /\ queue # <<>>

\* The low utterances of a queue, in queue order.
Lows(q) == SelectSeq(q, LAMBDA it : it.priority = "low")

\* C14: speakLow submissions made in immediate succession (same timestamp) are
\* all retained and started in submission order: a speakLow call is never
\* throttled, it leaves every low utterance of the same instant pending or
\* started, the pending low utterances stand in submission order, and a low
\* utterance is started only when no earlier low utterance is still pending.
C14_LowsRetainedInOrder ==
    [][/\ (IsSubmission /\ last'.op = "speakLow") =>
              /\ Accepted
              /\ \A i \in DOMAIN queue :
                     (queue[i].priority = "low" /\ queue[i].timestamp = now)
                         => (queue[i].id \in Ids(queue') \/ last'.start = queue[i].id)
              /\ \A i, j \in DOMAIN Lows(queue') :
                     i < j => Lows(queue')[i].id < Lows(queue')[j].id
       /\ (last'.start # 0 /\ last'.priority = "low") =>
              \A i \in DOMAIN Lows(queue') : Lows(queue')[i].id > last'.start]_vars

\* C14 witness: three speakLow calls at one instant, made while paused, have
\* left their three utterances pending in submission order.
C14_Witness ==
    /\ last.op = "speakLow"
    /\ last.id = 3
    /\ Len(queue) = 3
    /\ \A i \in 1..3 :
           /\ queue[i].id = i
           /\ queue[i].priority = "low"
           /\ queue[i].timestamp = now

\* C15: pause() called in any state calls Speech.stop() (whatever the engine
\* holds is halted), sets paused to true and speaking to false, and leaves the
\* pending queue unchanged: the same utterances in the same order.
C15_PauseFrame ==
    [][last'.op = "pause" =>
           /\ last'.stop
           /\ \A e \in engine' : e.halted
           /\ {e.id : e \in engine'} = {e.id : e \in engine}
           /\ isPaused'
           /\ ~isSpeaking'
           /\ queue' = queue
           /\ last'.start = 0]_vars

\* C15 witness: pause() was called while an utterance was being spoken and
\* two more were pending.
C15_Witness ==
    /\ last.op = "pause"
    /\ Len(queue) = 2
    /\ \E e \in engine : e.halted
    /\ isPaused
    /\ ~isSpeaking

\* C16: resume() sets paused to false and runs processQueue(): with an empty
\* queue nothing is started and isSpeaking() stays as it was (false, if the
\* service was paused); with a queue whose head is not expired and nothing in
\* flight, the head is handed to the engine and isSpeaking() is true when
\* resume() returns.
C16_ResumeDrives ==
    [][last'.op = "resume" =>
           /\ ~isPaused'
           /\ queue = <<>> =>
                  /\ isSpeaking' = isSpeaking
                  /\ isPaused => ~isSpeaking'
                  /\ last'.start = 0
                  /\ engine' = engine
           /\ (queue # <<>> /\ InFlight = {} /\ ~ExpiredAtPop(Head(queue), now)) =>
                  /\ last'.start = Head(queue).id
                  /\ queue' = Tail(queue)
                  /\ isSpeaking'
                  /\ \E e \in InFlight' : e.id = Head(queue).id]_vars

\* C16 witness: resume() was called on a paused service with two utterances
\* pending; it started the first and left the second pending.
C16_Witness ==
    /\ last.op = "resume"
    /\ last.start # 0
    /\ isSpeaking
    /\ ~isPaused
    /\ Len(queue) = 1
    /\ \E e \in InFlight : e.id = last.start

\* C17: speak(text) with the priority omitted behaves as speakNormal(text) in
\* every state (same throttle decision, same queue and playback state
\* afterwards), and speak(text, p) behaves as speakImmediate, speakHigh,
\* speakNormal, speakLow for p = critical, high, normal, low.
C17_SpeakDispatch ==
    [][(IsSubmission /\ last'.via # "direct") =>
           CASE last'.via = "omitted" -> speakNormalOf(last'.text, "omitted")
             [] last'.via = "critical" -> speakImmediateOf(last'.text, "critical")
             [] last'.via = "high" -> speakHighOf(last'.text, "high")
             [] last'.via = "normal" -> speakNormalOf(last'.text, "normal")
             [] last'.via = "low" -> speakLowOf(last'.text, "low")]_vars

\* C17 witness: speak(text) without a priority was throttled as speakNormal
\* is, while an utterance was pending.
C17_Witness ==
    /\ last.via = "omitted"
    /\ last.op = "speakNormal"
    /\ ~last.accepted
    /\ queue # <<>>

\* C18: setLanguage and setSpeechRate change only the configuration: the
\* queue, the speaking flag and the paused flag are unchanged and no speech is
\* started or stopped.  An utterance keeps, as long as the engine holds it,
\* the language and rate it was started with, and every utterance started
\* uses the configuration of the moment it is started.
C18_ConfigFrame ==
    [][/\ last'.op \in {"setLanguage", "setSpeechRate"} =>
              /\ UNCHANGED <<queue, isSpeaking, isPaused, engine, timers,
                             lastAnnouncementTime>>
              /\ last'.start = 0
              /\ ~last'.stop
       /\ \A e \in engine' : \A e0 \in engine :
              e.id = e0.id => (e.language = e0.language /\ e.rate = e0.rate)
       /\ last'.start # 0 =>
              \E e \in engine' :
                  /\ e.id = last'.start
                  /\ e.language = LANGUAGES(currentLanguage')
                  /\ e.rate = speechRate']_vars

\* C18 witness: the language was set to Hindi while an English utterance was
\* being spoken; the next utterance was started in Hindi and the engine still
\* holds the English one.
C18_Witness ==
    /\ currentLanguage = "hi"
    /\ last.start # 0
    /\ \E e \in engine : e.id = last.start /\ e.language = "hi-IN"
    /\ \E e \in engine : e.id # last.start /\ e.language = "en-IN"

\* After onError the driver owes the queue a start: it is not paused and an
\* utterance is pending.
OwesStart == last.op = "onError" /\ ~isPaused /\ queue # <<>>

\* The debt is settled: an utterance was started, or the driver was paused
\* or the queue emptied (stop(), speakImmediate, expiry) in the meantime.
StartedOrExcused == last.start # 0 \/ isPaused \/ queue = <<>>

\* C13: when the engine reports onError for the utterance in flight, the
\* driver becomes idle and the utterance is not retried: it is not put back
\* in the queue, and the only utterances ever started are pending ones and new
\* submissions, whose ids are fresh.  If the queue then holds an utterance and
\* the driver is not paused, the next utterance is eventually started (unless
\* the queue is emptied or the driver paused first).
C13_ErrorIsCompletion ==
    /\ [][/\ last'.op = "onError" =>
                 /\ ~isSpeaking'
                 /\ queue' = queue
                 /\ last'.id \notin Ids(queue')
                 /\ last'.id < nextId'
                 /\ \A e \in engine' : e.id # last'.id
          /\ Ids(queue') \subseteq Ids(queue) \cup {nextId}
          /\ nextId' >= nextId
          /\ last'.start # 0 =>
                 /\ last'.start \in Ids(queue) \cup {nextId}
                 /\ last'.start \notin Ids(queue')]_vars
    /\ (OwesStart ~> StartedOrExcused)

\* C13 witness: onError was reported at the last clock instant, with the
\* driver not paused and an utterance pending.
C13_Witness ==
    /\ OwesStart
    /\ now = StartTime + 5300
    /\ ~isSpeaking

\* The generateContent requests issued in the 60 seconds that end at time t.
IssuedInWindow(t) ==
    SumOver(issuedAt, {u \in GeminiTimes : t - RATE_LIMIT_WINDOW < u /\ u <= t})

\* C19: for every interleaving of analyzeImage and describePhoto calls, calls
\* that overlap while awaiting the model included, at most
\* MAX_REQUESTS_PER_MINUTE (13) generateContent requests are issued within
\* any 60-second window.
C19_AtMostThirteenPerMinute ==
    \A t \in GeminiTimes : IssuedInWindow(t) <= MAX_REQUESTS_PER_MINUTE

\* The speak functions announceScene called.
AnnouncedAs == {announced.calls[i].fn : i \in DOMAIN announced.calls}

\* C20: in verbosity mode 'critical' announceScene submits no normal and no
\* low utterance, for any scene: it announces the warnings (as critical), or
\* else the first close or very close obstacle (as high), or else nothing.
C20_CriticalModeOnlyDangers ==
    announced.verbosity = "critical" =>
        /\ AnnouncedAs \subseteq {"speakImmediate", "speakHigh"}
        /\ "speakImmediate" \in AnnouncedAs <=> Len(announced.scene.warnings) > 0
        /\ "speakHigh" \in AnnouncedAs <=>
               /\ Len(announced.scene.warnings) = 0
               /\ \E i \in DOMAIN announced.scene.objects :
                      announced.scene.objects[i].distance \in {"very_close", "close"}

\* C20 witness: in mode 'critical' a scene with a summary, visible text and
\* two distant objects, without warnings, was announced by no call at all.
C20_Witness ==
    /\ announced.verbosity = "critical"
    /\ announced.scene.summary # ""
    /\ Len(announced.scene.text) > 0
    /\ Len(announced.scene.objects) = 2
    /\ Len(announced.scene.warnings) = 0
    /\ \A i \in DOMAIN announced.scene.objects :
           announced.scene.objects[i].distance \in {"medium", "far", "none"}
    /\ announced.calls = <<>>

\* The queue as the queue step of the speakImmediate of this step leaves it,
\* before processQueue runs.
Interrupted == interruptWithCritical(queue, nextId, last'.text, now)

\* C21: immediately after the queue step of speakImmediate the queue holds
\* only critical utterances: every queued high, normal and low utterance has
\* been dropped, the critical utterances that were queued are kept in their
\* order, and the new critical utterance stands in front of them.  (The
\* processQueue that follows starts the new utterance, unless the driver is
\* paused.)
C21_InterruptKeepsOnlyCritical ==
    [][(IsSubmission /\ last'.op = "speakImmediate") =>
           /\ \A i \in DOMAIN Interrupted : Interrupted[i].priority = "critical"
           /\ Head(Interrupted).id = last'.id
           /\ Head(Interrupted).timestamp = now
           /\ Tail(Interrupted) = SelectSeq(queue, LAMBDA it : it.priority = "critical")
           /\ \A it \in Items(queue) :
                  it.priority # "critical" =>
                      (it \in last'.dropped /\ it.id \notin Ids(queue'))
           /\ IF isPaused
              THEN queue' = Interrupted /\ last'.start = 0
              ELSE queue' = Tail(Interrupted) /\ last'.start = last'.id]_vars

\* C21 witness: a speakImmediate made while paused has dropped a low and a
\* high utterance and left its own utterance alone in the queue.
C21_Witness ==
    /\ last.op = "speakImmediate"
    /\ isPaused
    /\ Len(queue) = 1
    /\ queue[1].id = last.id
    /\ {it.priority : it \in last.dropped} = {"high", "low"}

\* An utterance that drive may start at the present time: a critical one, or
\* one whose age does not exceed the timeout of its priority.
Eligible(it) ==
    it.priority = "critical" \/ now - it.timestamp <= PRIORITY_TIMEOUT(it.priority)

\* The positions of the eligible utterances of the queue.
EligibleAt == {i \in DOMAIN queue : Eligible(queue[i])}

\* C22: processQueue never hands to the engine a non-critical utterance whose
\* age at the pop exceeds the timeout of its priority (high 5000, normal
\* 10000, low 15000).  A processQueue that passes its guard (here: the one of
\* resume() and of a settle timer) discards the expired utterances in front
\* and starts the first eligible one, or empties the queue if there is none;
\* a critical utterance is always eligible.
C22_ExpiredNeverStarted ==
    [][/\ (last'.start # 0 /\ last'.priority # "critical") =>
              last'.age <= PRIORITY_TIMEOUT(last'.priority)
       /\ (/\ last'.op \in {"resume", "timer"}
           /\ ~isPaused'
           /\ ~isSpeaking
           /\ queue # <<>>) =>
              IF EligibleAt = {}
              THEN queue' = <<>> /\ last'.start = 0
              ELSE LET k == CHOOSE i \in EligibleAt : \A j \in EligibleAt : i <= j
                   IN  /\ last'.start = queue[k].id
                       /\ queue' = SubSeq(queue, k + 1, Len(queue))
                       /\ last'.dropped = {queue[i] : i \in 1..(k - 1)}]_vars

\* C22 witness: resume() has discarded a normal utterance older than 10000 ms
\* and started the low utterance queued behind it.
C22_Witness ==
    /\ last.op = "resume"
    /\ last.start # 0
    /\ last.priority = "low"
    /\ \E it \in last.dropped :
           it.priority = "normal" /\ now - it.timestamp > PRIORITY_TIMEOUT("normal")

\* C23: in every reachable state the queue holds no high, normal or low
\* utterance whose age is greater than the timeout of its priority.
C23_QueueHoldsNoExpired ==
    \A i \in DOMAIN queue :
        queue[i].priority # "critical" =>
            now - queue[i].timestamp <= PRIORITY_TIMEOUT(queue[i].priority)

\* C24: the sweep that ends addToQueue agrees with the pop-time check of
\* processQueue: for every non-critical utterance at every age, the age equal
\* to the timeout included, addToQueue would remove the utterance if and only
\* if processQueue would discard it (its age exceeds the timeout).
C24_SweepAgreesWithPop ==
    \A i \in DOMAIN queue :
        queue[i].priority # "critical" =>
            /\ ~NotExpiredAtEnqueue(queue[i], now) <=> ExpiredAtPop(queue[i], now)
            /\ ~NotExpiredAtEnqueue(queue[i], now) <=>
                   now - queue[i].timestamp > PRIORITY_TIMEOUT(queue[i].priority)

\* C25: lastAnnouncementTime is set to the current time whenever an utterance
\* finishes playback, on onDone and on onError alike.
C25_CompletionTimeRecorded ==
    [][last'.op \in {"onDone", "onError"} => lastAnnouncementTime' = now]_vars

\* C26: after an utterance completes or fails, no utterance is started before
\* the settling delay has elapsed: while the settle timer of a completion is
\* not yet due, no handler hands an utterance to the engine.
C26_NoStartDuringSettle ==
    last.start # 0 => \A i \in DOMAIN timers : timers[i] <= now

\* The guard of processQueue holds: it returns at once.
DriveBlocked == isPaused \/ isSpeaking \/ queue = <<>>

\* C27: processQueue is a no-op whenever the driver is paused, or already
\* speaking, or the queue is empty: it changes neither the queue nor the
\* playback state and does not invoke the engine.  So a settle timer that
\* fires in such a state has no effect, a resume() during speech or on an
\* empty queue only clears the pause, and an enqueue made while paused or
\* speaking leaves its utterance queued.
C27_BlockedDriveIsNoOp ==
    [][/\ DriveBlocked =>
              processQueue(isPaused, isSpeaking, queue, now)
                  = [queue |-> queue, item |-> NoItem]
       /\ (last'.op = "timer" /\ DriveBlocked) =>
              /\ UNCHANGED <<queue, isSpeaking, isPaused, engine, lastAnnouncementTime>>
              /\ last'.start = 0
              /\ last'.dropped = {}
       /\ (last'.op = "resume" /\ (isSpeaking \/ queue = <<>>)) =>
              /\ UNCHANGED <<queue, isSpeaking, engine, lastAnnouncementTime>>
              /\ last'.start = 0
       /\ (/\ IsSubmission
           /\ last'.op \in {"speakHigh", "speakNormal", "speakLow"}
           /\ last'.accepted
           /\ isPaused \/ isSpeaking) =>
              /\ UNCHANGED <<isSpeaking, isPaused, engine, lastAnnouncementTime>>
              /\ last'.start = 0
              /\ last'.id \in Ids(queue')]_vars

\* C27 witness: a settle timer has fired while an utterance was being spoken
\* and another was pending, and has started nothing.
C27_Witness ==
    /\ last.op = "timer"
    /\ isSpeaking
    /\ ~isPaused
    /\ queue # <<>>
    /\ last.start = 0

\* C28: when the engine reports onStopped for an utterance, the driver only
\* sets the state to idle: the queue, the settle timers, lastAnnouncementTime
\* and the pause are unchanged and nothing is started.  The calls that stop
\* speech advance the queue themselves: speakImmediate runs processQueue
\* (its utterance is started, unless the driver is paused), pause() leaves
\* the driver paused until resume() runs processQueue, stop() leaves the
\* queue empty.
C28_StoppedOnlyIdles ==
    [][/\ last'.op = "onStopped" =>
              /\ ~isSpeaking'
              /\ UNCHANGED <<queue, timers, lastAnnouncementTime, isPaused>>
              /\ last'.start = 0
              /\ InFlight' = InFlight
              /\ \E e \in engine : e.halted /\ e.id = last'.id /\ engine' = engine \ {e}
       /\ last'.stop =>
              /\ last'.op \in {"speakImmediate", "pause", "stop"}
              /\ last'.op = "speakImmediate" =>
                     (isPaused' \/ last'.start = last'.id)
              /\ last'.op = "pause" => isPaused'
              /\ last'.op = "stop" => queue' = <<>>
       /\ (last'.op = "resume" /\ ~isSpeaking /\ queue # <<>>) =>
              (last'.start # 0 \/ queue' = <<>>)]_vars

\* C28 witness: pause() halted an utterance; its onStopped has arrived and an
\* utterance is still pending, with no settle timer set.
C28_Witness ==
    /\ last.op = "onStopped"
    /\ isPaused
    /\ queue # <<>>
    /\ timers = <<>>
    /\ ~isSpeaking

\* No drive is pending: no settle timer is set and no utterance is in flight
\* (the terminal callback of an utterance in flight sets one).
NoDrivePending == timers = <<>> /\ InFlight = {}

C30_CriticalLeavesOnlySpokenOrStopped ==
    [][\A i \in DOMAIN queue :
           (queue[i].priority = "critical" /\ queue[i].id \notin Ids(queue')) =>
               (last'.start = queue[i].id \/ last'.op = "stop")]_vars

\* C31: while paused, a critical submission is not spoken either:
\* speakImmediate still calls Speech.stop(), drops the queued non-critical
\* utterances and queues the critical one, but hands nothing to the engine.
\* No handler hands an utterance to the engine and leaves the driver paused;
\* a pause is ended by resume() or stop() only, and the only handler that
\* starts an utterance out of a paused state is resume().
C31_PausedCriticalWaits ==
    [][/\ (IsSubmission /\ last'.op = "speakImmediate" /\ isPaused) =>
              /\ last'.stop
              /\ \A e \in engine' : e.halted
              /\ {e.id : e \in engine'} = {e.id : e \in engine}
              /\ queue' = Interrupted
              /\ last'.id \in Ids(queue')
              /\ \A i \in DOMAIN queue' : queue'[i].priority = "critical"
              /\ last'.start = 0
              /\ isPaused'
              /\ ~isSpeaking'
       /\ last'.start # 0 => ~isPaused'
       /\ (isPaused /\ ~isPaused') => last'.op \in {"resume", "stop"}
       /\ (isPaused /\ last'.start # 0) => last'.op = "resume"]_vars

\* C31 witness: a speakImmediate made while paused has halted nothing new,
\* dropped a queued utterance, and its own utterance waits in the queue while
\* the callback of the utterance pause() halted is still to come.
C31_Witness ==
    /\ last.op = "speakImmediate"
    /\ isPaused
    /\ last.start = 0
    /\ last.id \in Ids(queue)
    /\ last.dropped # {}
    /\ \E e \in engine : e.halted

\* C32: in every reachable state, the states reached through speakImmediate's
\* front insertion included, the pending queue is ordered by non-increasing
\* priority rank from head to tail: no utterance stands behind one of
\* strictly lower priority.
C32_QueueRankOrdered ==
    \A i, j \in DOMAIN queue :
        i < j => getPriorityValue(queue[i].priority) >= getPriorityValue(queue[j].priority)

\* C32 witness: a speakImmediate made while paused has inserted its utterance
\* in front of a critical utterance that was already waiting.
C32_Witness ==
    /\ last.op = "speakImmediate"
    /\ Len(queue) = 2
    /\ queue[1].id = last.id
    /\ queue[2].priority = "critical"

\* C33: isSpeaking() reflects the engine: in every reachable state
\* isSpeaking() is true if and only if an utterance handed to the engine has
\* neither received its terminal callback nor been halted by Speech.stop(),
\* for every order in which the callbacks of halted utterances arrive
\* relative to later Speech.speak calls.
C33_FlagReflectsEngine == isSpeaking <=> InFlight # {}

\* C34: after stop() returns, no utterance submitted before the stop is ever
\* handed to the engine, also when an onDone, onError or onStopped callback
\* of the halted utterance or a pending settle timer fires afterwards: from
\* the state stop() leaves, every utterance started carries an id given
\* after the stop.  stop() itself leaves nothing in flight and nothing
\* pending, so speech resumes only with a later submission.
C34_NothingOldAfterStop ==
    /\ \A id \in 1..MaxUtterances :
           []((last.op = "stop" /\ id < nextId) => [](last.start # id))
    /\ [](last.op = "stop" => (queue = <<>> /\ InFlight = {}))
    /\ [][(queue = <<>> /\ last'.start # 0) => (IsSubmission /\ last'.start = nextId)]_vars

\* C34 witness: stop() has cleared a pending utterance and halted the one
\* being spoken, whose callback is still to come, while a settle timer is set.
C34_Witness ==
    /\ last.op = "stop"
    /\ last.dropped # {}
    /\ \E e \in engine : e.halted
    /\ timers # <<>>
    /\ queue = <<>>

\* The utterance has left the queue: its id was given and it is not pending.
Gone(id) == id < nextId /\ id \notin Ids(queue)

\* C35: every utterance is handed to the speech engine at most once.  An
\* utterance is started out of the queue, or by the call that submits it, and
\* it is removed from the queue by that step; once it has left the queue it
\* is never started (again).  An utterance that was in flight when pause(),
\* stop() or a critical interruption called Speech.stop() is not put back in
\* the queue, so no resume() starts it again.  Ids are not given twice.
C35_StartedAtMostOnce ==
    /\ \A id \in 1..MaxUtterances :
           []((Gone(id) /\ last.start # id) => [](last.start # id))
    /\ [][/\ last'.start # 0 =>
                 /\ last'.start \in Ids(queue) \cup {nextId}
                 /\ last'.start \notin Ids(queue')
                 /\ last'.start # last.start
                 /\ \A e \in engine : e.id # last'.start
          /\ last'.stop => \A e \in engine : e.id \notin Ids(queue')
          /\ nextId' >= nextId
          /\ Ids(queue') \subseteq Ids(queue) \cup {nextId}]_vars
    /\ [](\A i, j \in DOMAIN queue : queue[i].id = queue[j].id => i = j)

\* C35 witness: resume() has started a pending utterance while the engine
\* still holds the utterance pause() halted, which is not in the queue.
C35_Witness ==
    /\ last.op = "resume"
    /\ last.start # 0
    /\ \E e \in engine :
           /\ e.halted
           /\ e.id # last.start
           /\ e.id \notin Ids(queue)

\* The utterances the announceScene of this step handed to the engine.
StartedByScene == {e \in engine' : e.id >= nextId}

\* C36: a critical utterance that has been started is never halted before
\* its completion except by pause() or stop(): a handler other than pause()
\* and stop() does not halt the critical utterance the handler before it
\* started.  In particular, when announceScene receives a scene with warnings
\* and the driver is not paused, the first warning is being spoken when
\* announceScene returns, the other warnings wait in the queue in the order
\* given, and no warning has been halted.
C36_WarningsSpokenInOrder ==
    [][/\ (last.start # 0 /\ last.priority = "critical"
               /\ last'.op \notin {"pause", "stop"}) =>
              \A e \in engine' : e.id = last.start => ~e.halted
       /\ (/\ last'.op = "announceScene"
           /\ Len(announced'.scene.warnings) > 0
           /\ ~isPaused) =>
              /\ \A e \in StartedByScene : ~e.halted
              /\ last'.start = nextId
              /\ [i \in DOMAIN queue' |-> queue'[i].id]
                     = [i \in 1..(Len(announced'.scene.warnings) - 1) |-> nextId + i]]_vars

\* C37: after GeminiLiveSession.stop() has returned (and until start() is
\* called again) isActive() is false, streamFrame, streamAudio and sendText
\* send nothing to the model, and no onText callback is delivered to the
\* application, also for a streamFrame, streamAudio or sendText request that
\* was awaiting the model when stop() was called.
C37_StoppedSessionIsSilent ==
    stoppedSince =>
        /\ ~isActive
        /\ last.op \in {"streamFrame", "streamAudio", "sendText"} => ~last.accepted
        /\ last.text = ""

====
